---- MODULE Spec2Model ----
(***************************************************************************)
(* Drinking philosophers (src/Assignments/drinking_philosopher.cpp):       *)
(* Graph (topology), Bottles (ownership pool) and Philosopher::run.        *)
(***************************************************************************)
EXTENDS Integers, Sequences, FiniteSets, TLC

VARIABLES adjacency_list,   \* Graph::adjacency_list  [vertex][neighbor] = bottle_id
          bottles,          \* Bottles::bottles       [bottle] = owner, -1 is free
          state,            \* Philosopher::state, per philosopher
          required_bottles, \* Philosopher::required_bottles, per philosopher
          pc,               \* position of each philosopher thread in run()
          call,             \* the pool calls observed: arguments, vector before, value returned
          calls,            \* the addEdge calls made so far, in order
          test,             \* number of steps of the bottle management test done
          bottles_mtx,      \* Bottles::mtx: the thread that holds it, -1 if none
          logger_mtx,       \* StateLogger::mtx: the thread that holds it, -1 if none
          philosopher_mtx,  \* Philosopher::mtx, per philosopher: locked or not
          loop_i,           \* loop position of each thread inside a Bottles call
          console,          \* the last line written to std::cout and its writer
          snapshot,         \* the last line written by logBottleState
          emitted           \* lines logBottleState wrote in each thread's Bottles call

\* the variables of the step-by-step run
fvars == <<bottles_mtx, logger_mtx, philosopher_mtx, loop_i, console, snapshot, emitted>>

vars == <<adjacency_list, bottles, state, required_bottles, pc, call, calls, test, fvars>>

----------------------------------------------------------------------------
(* Program constants *)

number_of_philosophers == 5
number_of_bottles == 6
Free == -1

TRANQUIL == "TRANQUIL"
THIRSTY == "THIRSTY"
DRINKING == "DRINKING"
State == {TRANQUIL, THIRSTY, DRINKING}

Philosophers == 0 .. (number_of_philosophers - 1)

\* philosopher threads main() has started before the run is cut off
MaxThreads == 2

\* the philosophers whose thread can be started
Threads == {p \in Philosophers : p < MaxThreads}

\* largest value of limit in becomeThirsty: (rand() % 2) + 1
MaxLimit == 2

----------------------------------------------------------------------------
(* Graph *)

\* std::map operator[] assignment: insert the key or overwrite its value
MapPut(m, k, v) == [x \in (DOMAIN m) \cup {k} |-> IF x = k THEN v ELSE m[x]]

EmptyMap == [x \in {} |-> 0]

\* Graph(number_fo_vertices): one empty map per vertex
Graph(n) == [v \in 0 .. (n - 1) |-> EmptyMap]

\* addEdge that registers the bottle at vertex_1 only
addEdge_oneWay(adj, vertex_1, vertex_2, bottle_id) ==
    [adj EXCEPT ![vertex_1] = MapPut(@, vertex_2, bottle_id)]

\* the two assignments of addEdge, in order
addEdge(adj, vertex_1, vertex_2, bottle_id) ==
    LET first == [adj EXCEPT ![vertex_1] = MapPut(@, vertex_2, bottle_id)]
    IN  [first EXCEPT ![vertex_2] = MapPut(@, vertex_1, bottle_id)]

Min(S) == CHOOSE x \in S : \A y \in S : x <= y

\* values of a std::map in iteration order (ascending key)
RECURSIVE MapValues(_, _)
MapValues(m, keys) ==
    IF keys = {} THEN <<>>
    ELSE LET k == Min(keys) IN <<m[k]>> \o MapValues(m, keys \ {k})

\* getAdjacentBottles that collects pair.first, the neighbours, not the bottles
getAdjacentBottles_keys(adj, philosopher_id) ==
    MapValues([k \in DOMAIN adj[philosopher_id] |-> k], DOMAIN adj[philosopher_id])

getAdjacentBottles(adj, philosopher_id) ==
    MapValues(adj[philosopher_id], DOMAIN adj[philosopher_id])

\* the edges main() adds, in order: <<vertex_1, vertex_2, bottle_id>>
MainEdges == << <<0, 1, 0>>, <<1, 2, 1>>, <<2, 3, 2>>,
                <<3, 4, 3>>, <<4, 0, 4>>, <<0, 2, 5>> >>

RECURSIVE AddEdges(_, _)
AddEdges(adj, edges) ==
    IF edges = <<>> THEN adj
    ELSE AddEdges(addEdge(adj, Head(edges)[1], Head(edges)[2], Head(edges)[3]),
                  Tail(edges))

MainGraph == AddEdges(Graph(number_of_philosophers), MainEdges)

----------------------------------------------------------------------------
(* Bottles *)

\* Bottles(number_of_bottles): every bottle free
Bottles(n) == [b \in 0 .. (n - 1) |-> Free]

\* check loop that refuses every bottle that is not free, the caller's included
RECURSIVE CheckLoop_freeOnly(_, _, _)
CheckLoop_freeOnly(bs, philosopher_id, req) ==
    IF req = <<>> THEN TRUE
    ELSE IF bs[Head(req)] # Free THEN FALSE
    ELSE CheckLoop_freeOnly(bs, philosopher_id, Tail(req))

\* check loop that looks at the first requested bottle only
CheckLoop_firstOnly(bs, philosopher_id, req) ==
    IF req = <<>> THEN TRUE
    ELSE ~(bs[Head(req)] # Free /\ bs[Head(req)] # philosopher_id)

\* check loop that reports an empty request as refused
RECURSIVE CheckLoop_nonEmpty(_, _, _)
CheckLoop_nonEmpty(bs, philosopher_id, req) ==
    IF req = <<>> THEN FALSE
    ELSE IF bs[Head(req)] # Free /\ bs[Head(req)] # philosopher_id THEN FALSE
    ELSE IF Tail(req) = <<>> THEN TRUE
    ELSE CheckLoop_nonEmpty(bs, philosopher_id, Tail(req))

\* check loop whose owner comparison is == instead of !=
RECURSIVE CheckLoop_ownerEq(_, _, _)
CheckLoop_ownerEq(bs, philosopher_id, req) ==
    IF req = <<>> THEN TRUE
    ELSE IF bs[Head(req)] # Free /\ bs[Head(req)] = philosopher_id THEN FALSE
    ELSE CheckLoop_ownerEq(bs, philosopher_id, Tail(req))

\* check loop whose two comparisons are joined by || instead of &&
RECURSIVE CheckLoop_or(_, _, _)
CheckLoop_or(bs, philosopher_id, req) ==
    IF req = <<>> THEN TRUE
    ELSE IF bs[Head(req)] # Free \/ bs[Head(req)] # philosopher_id THEN FALSE
    ELSE CheckLoop_or(bs, philosopher_id, Tail(req))

\* first loop of acquireBottles: FALSE at the first bottle owned by another
RECURSIVE CheckLoop(_, _, _)
CheckLoop(bs, philosopher_id, req) ==
    IF req = <<>> THEN TRUE
    ELSE IF bs[Head(req)] # Free /\ bs[Head(req)] # philosopher_id THEN FALSE
    ELSE CheckLoop(bs, philosopher_id, Tail(req))

\* commit loop that marks the first requested bottle only
CommitLoop_firstOnly(bs, philosopher_id, req) ==
    IF req = <<>> THEN bs
    ELSE [bs EXCEPT ![Head(req)] = philosopher_id]

\* second loop of acquireBottles: mark each bottle in turn
RECURSIVE CommitLoop(_, _, _)
CommitLoop(bs, philosopher_id, req) ==
    IF req = <<>> THEN bs
    ELSE CommitLoop([bs EXCEPT ![Head(req)] = philosopher_id],
                    philosopher_id, Tail(req))

\* acquireBottles with one loop: each bottle is marked as soon as it is checked
RECURSIVE acquireBottles_oneLoop(_, _, _)
acquireBottles_oneLoop(bs, philosopher_id, req) ==
    IF req = <<>> THEN [ret |-> TRUE, bottles |-> bs]
    ELSE IF bs[Head(req)] # Free /\ bs[Head(req)] # philosopher_id
         THEN [ret |-> FALSE, bottles |-> bs]
    ELSE acquireBottles_oneLoop([bs EXCEPT ![Head(req)] = philosopher_id],
                                philosopher_id, Tail(req))

\* the whole call under the mutex: the value returned and the vector left
acquireBottles(bs, philosopher_id, req) ==
    IF CheckLoop(bs, philosopher_id, req)
    THEN [ret |-> TRUE, bottles |-> CommitLoop(bs, philosopher_id, req)]
    ELSE [ret |-> FALSE, bottles |-> bs]

\* the loop of releaseBottles over indices i .. size-1
RECURSIVE ReleaseLoop(_, _, _)
ReleaseLoop(bs, philosopher_id, i) ==
    IF i \notin DOMAIN bs THEN bs
    ELSE ReleaseLoop(IF bs[i] = philosopher_id
                     THEN [bs EXCEPT ![i] = Free] ELSE bs,
                     philosopher_id, i + 1)

\* releaseBottles whose loop starts at index 1
releaseBottles_fromOne(bs, philosopher_id) == ReleaseLoop(bs, philosopher_id, 1)

\* releaseBottles that frees every bottle
releaseBottles_all(bs, philosopher_id) == [b \in DOMAIN bs |-> Free]

releaseBottles(bs, philosopher_id) == ReleaseLoop(bs, philosopher_id, 0)

NoCall == [op |-> "none"]

----------------------------------------------------------------------------
(* Philosopher::run, one thread per philosopher *)

Range(s) == {s[i] : i \in DOMAIN s}

\* orders in which std::ranges::shuffle can leave indices 0..n-1 (as 1..n)
Shuffles(n) == {f \in [1 .. n -> 1 .. n] : \A i, j \in 1 .. n : f[i] = f[j] => i = j}

\* the push_back loop of becomeThirsty
Selected(adjacent_bottles, indices, limit) ==
    LET n == IF limit < Len(adjacent_bottles) THEN limit ELSE Len(adjacent_bottles)
    IN  [i \in 1 .. n |-> adjacent_bottles[indices[i]]]

NoThread == -1

\* no mutex held, nothing written yet
InitFineVars ==
    /\ bottles_mtx = NoThread
    /\ logger_mtx = NoThread
    /\ philosopher_mtx = [p \in Philosophers |-> FALSE]
    /\ loop_i = [p \in Philosophers |-> 0]
    /\ console = [by |-> NoThread, line |-> ""]
    /\ snapshot = <<>>
    /\ emitted = [p \in Philosophers |-> 0]

think(p) ==
    /\ pc[p] = "think"
    /\ state' = [state EXCEPT ![p] = TRANQUIL]
    /\ pc' = [pc EXCEPT ![p] = "becomeThirsty"]
    /\ UNCHANGED <<adjacency_list, bottles, required_bottles, call, calls, test, fvars>>

\* becomeThirsty without required_bottles.clear()
becomeThirsty_noClear(p) ==
    /\ pc[p] = "becomeThirsty"
    /\ state' = [state EXCEPT ![p] = THIRSTY]
    /\ LET adjacent_bottles == getAdjacentBottles(adjacency_list, p)
       IN  \E limit \in 1 .. MaxLimit : \E indices \in Shuffles(Len(adjacent_bottles)) :
             required_bottles' =
                [required_bottles EXCEPT
                    ![p] = @ \o Selected(adjacent_bottles, indices, limit)]
    /\ pc' = [pc EXCEPT ![p] = "requestBottles"]
    /\ UNCHANGED <<adjacency_list, bottles, call, calls, test, fvars>>

becomeThirsty(p) ==
    /\ pc[p] = "becomeThirsty"
    /\ state' = [state EXCEPT ![p] = THIRSTY]
    /\ LET adjacent_bottles == getAdjacentBottles(adjacency_list, p)
       IN  \E limit \in 1 .. MaxLimit : \E indices \in Shuffles(Len(adjacent_bottles)) :
             required_bottles' =
                [required_bottles EXCEPT ![p] = Selected(adjacent_bottles, indices, limit)]
    /\ pc' = [pc EXCEPT ![p] = "requestBottles"]
    /\ UNCHANGED <<adjacency_list, bottles, call, calls, test, fvars>>

\* requestBottles that sets DRINKING before looking at the result
requestBottles_drinkFirst(p) ==
    /\ pc[p] = "requestBottles"
    /\ LET r == acquireBottles(bottles, p, required_bottles[p])
       IN  /\ bottles' = r.bottles
           /\ state' = [state EXCEPT ![p] = DRINKING]
           /\ pc' = [pc EXCEPT ![p] = IF r.ret THEN "drink" ELSE "sleep_for"]
    /\ UNCHANGED <<adjacency_list, required_bottles, call, calls, test, fvars>>

requestBottles(p) ==
    /\ pc[p] = "requestBottles"
    /\ \A b \in Range(required_bottles[p]) : b \in DOMAIN bottles
    /\ LET r == acquireBottles(bottles, p, required_bottles[p])
       IN  /\ bottles' = r.bottles
           /\ IF r.ret
              THEN /\ state' = [state EXCEPT ![p] = DRINKING]
                   /\ pc' = [pc EXCEPT ![p] = "drink"]
              ELSE /\ state' = state
                   /\ pc' = [pc EXCEPT ![p] = "sleep_for"]
    /\ UNCHANGED <<adjacency_list, required_bottles, call, calls, test, fvars>>

\* retry loop that goes back to becomeThirsty after the backoff sleep
sleep_for_rechoose(p) ==
    /\ pc[p] = "sleep_for"
    /\ pc' = [pc EXCEPT ![p] = "becomeThirsty"]
    /\ UNCHANGED <<adjacency_list, bottles, state, required_bottles, call, calls, test, fvars>>

\* requestBottles with a bottle index outside the vector: bottles[bottle] is
\* undefined behaviour. The process is killed, or the read yields a value that
\* refuses the request, or it yields one that lets the in-range part decide
\* and the write lands outside the vector.
requestBottles_outOfRange(p) ==
    /\ pc[p] = "requestBottles"
    /\ \E b \in Range(required_bottles[p]) : b \notin DOMAIN bottles
    /\ LET inside == SelectSeq(required_bottles[p], LAMBDA b : b \in DOMAIN bottles)
       IN  \/ /\ pc' = [q \in Philosophers |-> "killed"]
              /\ UNCHANGED <<bottles, state>>
           \/ /\ pc' = [pc EXCEPT ![p] = "sleep_for"]
              /\ UNCHANGED <<bottles, state>>
           \/ /\ CheckLoop(bottles, p, inside)
              /\ bottles' = CommitLoop(bottles, p, inside)
              /\ state' = [state EXCEPT ![p] = DRINKING]
              /\ pc' = [pc EXCEPT ![p] = "drink"]
    /\ UNCHANGED <<adjacency_list, required_bottles, call, calls, test, fvars>>

\* the backoff sleep of the retry loop
sleep_for(p) ==
    /\ pc[p] = "sleep_for"
    /\ pc' = [pc EXCEPT ![p] = "requestBottles"]
    /\ UNCHANGED <<adjacency_list, bottles, state, required_bottles, call, calls, test, fvars>>

drink(p) ==
    /\ pc[p] = "drink"
    /\ pc' = [pc EXCEPT ![p] = "releaseBottles"]
    /\ UNCHANGED <<adjacency_list, bottles, state, required_bottles, call, calls, test, fvars>>

\* releaseBottles() that waits until no other philosopher is thirsty
Philosopher_releaseBottles_polite(p) ==
    /\ pc[p] = "releaseBottles"
    /\ \A q \in Philosophers \ {p} : state[q] # THIRSTY
    /\ bottles' = releaseBottles(bottles, p)
    /\ state' = [state EXCEPT ![p] = TRANQUIL]
    /\ pc' = [pc EXCEPT ![p] = "think"]
    /\ UNCHANGED <<adjacency_list, required_bottles, call, calls, test, fvars>>

Philosopher_releaseBottles(p) ==
    /\ pc[p] = "releaseBottles"
    /\ bottles' = releaseBottles(bottles, p)
    /\ state' = [state EXCEPT ![p] = TRANQUIL]
    /\ pc' = [pc EXCEPT ![p] = "think"]
    /\ UNCHANGED <<adjacency_list, required_bottles, call, calls, test, fvars>>

\* main(): threads.emplace_back(&Philosopher::run, ...) for idx = 0, 1, ...
startThread(idx) ==
    /\ idx < MaxThreads
    /\ pc[idx] = "not_started"
    /\ \A q \in Philosophers : q < idx => pc[q] # "not_started"
    /\ pc' = [pc EXCEPT ![idx] = "think"]
    /\ UNCHANGED <<adjacency_list, bottles, state, required_bottles, call, calls, test, fvars>>

run(p) ==
    \/ think(p)
    \/ becomeThirsty(p)
    \/ requestBottles(p)
    \/ sleep_for(p)
    \/ drink(p)
    \/ Philosopher_releaseBottles(p)

Init ==
    /\ adjacency_list = MainGraph
    /\ bottles = Bottles(number_of_bottles)
    /\ state = [p \in Philosophers |-> TRANQUIL]
    /\ required_bottles = [p \in Philosophers |-> <<>>]
    /\ pc = [p \in Philosophers |-> "not_started"]
    /\ call = NoCall
    /\ calls = <<>>
    /\ test = 0
    /\ InitFineVars

Next == \E p \in Philosophers : startThread(p) \/ run(p)

Spec == Init /\ [][Next]_vars

\* every thread is started and, once started, keeps being scheduled
FairSpec ==
    /\ Spec
    /\ \A p \in Threads : WF_vars(startThread(p)) /\ WF_vars(run(p))

\* the least scheduling progress needs: a thread between becomeThirsty and
\* the end of its releaseBottles is not left out for ever
ThirstySpec ==
    /\ Spec
    /\ \A p \in Threads :
          WF_vars(requestBottles(p) \/ sleep_for(p) \/ drink(p) \/ Philosopher_releaseBottles(p))

\* the least scheduling a hold needs: a thread that can take the step after
\* the drink delay, or the releaseBottles step, is not left out for ever
HoldSpec ==
    /\ Spec
    /\ \A p \in Threads : WF_vars(drink(p) \/ Philosopher_releaseBottles(p))

----------------------------------------------------------------------------
(* One schedule of the run on main()'s graph: the outcomes of rand() and of *)
(* the shuffle, and the moments at which requestBottles is called, are      *)
(* picked so that philosopher 1 always asks for bottle 0 while philosopher  *)
(* 0 has it. Every step is a step of Next.                                  *)

Victim == 1
Neighbour == 0
SharedBottle == 0

\* becomeThirsty, with philosophers 0 and 1 drawing a subset that has bottle 0
Starve_becomeThirsty(p) ==
    /\ becomeThirsty(p)
    /\ p \in {Victim, Neighbour} => SharedBottle \in Range(required_bottles'[p])

\* requestBottles, called by philosopher 1 while a bottle it needs is taken
\* and by the others while the bottles they need are free
Starve_requestBottles(p) ==
    /\ requestBottles(p)
    /\ (p = Victim) <=> (\E b \in Range(required_bottles[p]) :
                            bottles[b] # Free /\ bottles[b] # p)

\* the steps of run that do not depend on the schedule
Starve_other(p) ==
    think(p) \/ sleep_for(p) \/ drink(p) \/ Philosopher_releaseBottles(p)

NextStarve ==
    \E p \in Philosophers :
        \/ startThread(p)
        \/ Starve_other(p)
        \/ Starve_becomeThirsty(p)
        \/ Starve_requestBottles(p)

SpecStarve ==
    /\ Init /\ [][NextStarve]_vars
    /\ \A p \in Threads :
          /\ WF_vars(startThread(p) \/ Starve_other(p) \/ Starve_becomeThirsty(p))
          /\ SF_vars(Starve_requestBottles(p))

----------------------------------------------------------------------------
(* The run on other configurations: main() with another list of addEdge    *)
(* calls, the pool and the philosophers as in main()                       *)

\* the edges alphaTests Test 1 adds
Test1Edges == << <<0, 1, 0>>, <<1, 2, 1>> >>

\* the lists of addEdge calls tried: main()'s, each single edge of it, Test 1's
\* and none (Test 3)
EdgeLists ==
    {MainEdges, Test1Edges, <<>>} \cup {<<MainEdges[i]>> : i \in DOMAIN MainEdges}

InitConfig ==
    /\ calls \in EdgeLists
    /\ adjacency_list = AddEdges(Graph(number_of_philosophers), calls)
    /\ bottles = Bottles(number_of_bottles)
    /\ state = [p \in Philosophers |-> TRANQUIL]
    /\ required_bottles = [p \in Philosophers |-> <<>>]
    /\ pc = [p \in Philosophers |-> "not_started"]
    /\ call = NoCall
    /\ test = 0
    /\ InitFineVars

NextConfig == \E p \in Philosophers : startThread(p) \/ run(p)

SpecConfig == InitConfig /\ [][NextConfig]_vars

----------------------------------------------------------------------------
(* The run on a list of addEdge calls that names a bottle the pool does not *)
(* have: main()'s list with the last bottle id one past the end of the pool *)

PastEndEdges == [MainEdges EXCEPT ![Len(MainEdges)] = <<@[1], @[2], number_of_bottles>>]

InitPastEnd ==
    /\ calls = PastEndEdges
    /\ adjacency_list = AddEdges(Graph(number_of_philosophers), calls)
    /\ bottles = Bottles(number_of_bottles)
    /\ state = [p \in Philosophers |-> TRANQUIL]
    /\ required_bottles = [p \in Philosophers |-> <<>>]
    /\ pc = [p \in Philosophers |-> "not_started"]
    /\ call = NoCall
    /\ test = 0
    /\ InitFineVars

NextPastEnd ==
    \E p \in Philosophers : startThread(p) \/ run(p) \/ requestBottles_outOfRange(p)

SpecPastEnd == InitPastEnd /\ [][NextPastEnd]_vars

----------------------------------------------------------------------------
(* The pool on its own: any caller, any request vector *)

\* size of the pool and number of callers tried; a request vector is as long
\* as becomeThirsty can make it
PoolSize == 3
PoolCallers == 2

Callers == 0 .. (PoolCallers - 1)

RECURSIVE SeqsUpTo(_, _)
SeqsUpTo(S, n) ==
    IF n = 0 THEN {<<>>}
    ELSE LET shorter == SeqsUpTo(S, n - 1)
         IN  shorter \cup {Append(s, x) : s \in {t \in shorter : Len(t) = n - 1}, x \in S}

Requests == SeqsUpTo(0 .. (PoolSize - 1), MaxLimit)

Pool_acquireBottles(id, req) ==
    /\ LET r == acquireBottles(bottles, id, req)
       IN  /\ bottles' = r.bottles
           /\ call' = [op |-> "acquire", id |-> id, req |-> req,
                       before |-> bottles, ret |-> r.ret]
    /\ UNCHANGED <<adjacency_list, state, required_bottles, pc, calls, test, fvars>>

Pool_releaseBottles(id) ==
    /\ bottles' = releaseBottles(bottles, id)
    /\ call' = [op |-> "release", id |-> id, req |-> <<>>,
                before |-> bottles, ret |-> TRUE]
    /\ UNCHANGED <<adjacency_list, state, required_bottles, pc, calls, test, fvars>>

InitPool ==
    /\ adjacency_list = Graph(0)
    /\ bottles = Bottles(PoolSize)
    /\ state = [p \in Philosophers |-> TRANQUIL]
    /\ required_bottles = [p \in Philosophers |-> <<>>]
    /\ pc = [p \in Philosophers |-> "not_started"]
    /\ call = NoCall
    /\ calls = <<>>
    /\ test = 0
    /\ InitFineVars

NextPool ==
    \/ \E id \in Callers : \E req \in Requests : Pool_acquireBottles(id, req)
    \/ \E id \in Callers : Pool_releaseBottles(id)

SpecPool == InitPool /\ [][NextPool]_vars

----------------------------------------------------------------------------
(* alphaTests, Test 2: acquire, refused acquire, release, acquire again,   *)
(* for any two callers and any two request vectors                         *)

Test2_acquire(A, SA) ==
    /\ test = 0
    /\ InitFineVars
    /\ LET r == acquireBottles(bottles, A, SA)
       IN  /\ bottles' = r.bottles
           /\ call' = [A |-> A, SA |-> SA, ret1 |-> r.ret, after1 |-> r.bottles]
    /\ test' = 1
    /\ UNCHANGED <<adjacency_list, state, required_bottles, pc, calls, fvars>>

Test2_acquireOther(B, SB) ==
    /\ test = 1
    /\ LET r == acquireBottles(bottles, B, SB)
       IN  /\ bottles' = r.bottles
           /\ call' = [A |-> call.A, SA |-> call.SA, ret1 |-> call.ret1,
                       after1 |-> call.after1,
                       B |-> B, SB |-> SB, ret2 |-> r.ret, after2 |-> r.bottles]
    /\ test' = 2
    /\ UNCHANGED <<adjacency_list, state, required_bottles, pc, calls, fvars>>

Test2_release ==
    /\ test = 2
    /\ bottles' = releaseBottles(bottles, call.A)
    /\ call' = [A |-> call.A, SA |-> call.SA, ret1 |-> call.ret1,
                after1 |-> call.after1,
                B |-> call.B, SB |-> call.SB, ret2 |-> call.ret2,
                after2 |-> call.after2, after3 |-> bottles']
    /\ test' = 3
    /\ UNCHANGED <<adjacency_list, state, required_bottles, pc, calls, fvars>>

Test2_acquireAgain ==
    /\ test = 3
    /\ LET r == acquireBottles(bottles, call.B, call.SB)
       IN  /\ bottles' = r.bottles
           /\ call' = [A |-> call.A, SA |-> call.SA, ret1 |-> call.ret1,
                       after1 |-> call.after1,
                       B |-> call.B, SB |-> call.SB, ret2 |-> call.ret2,
                       after2 |-> call.after2, after3 |-> call.after3,
                       ret4 |-> r.ret]
    /\ test' = 4
    /\ UNCHANGED <<adjacency_list, state, required_bottles, pc, calls, fvars>>

NextTest2 ==
    \/ \E A \in Callers : \E SA \in Requests : Test2_acquire(A, SA)
    \/ \E B \in Callers : \E SB \in Requests : Test2_acquireOther(B, SB)
    \/ Test2_release
    \/ Test2_acquireAgain

SpecTest2 == InitPool /\ [][NextTest2]_vars

----------------------------------------------------------------------------
(* Graph construction: any sequence of addEdge calls *)

\* vertices of the graph, bottle ids used and number of addEdge calls tried
GraphVertices == 3
GraphBottles == 2
MaxEdges == 2

Graph_addEdge(a, b, r) ==
    /\ Len(calls) < MaxEdges
    /\ adjacency_list' = addEdge(adjacency_list, a, b, r)
    /\ calls' = Append(calls, <<a, b, r>>)
    /\ UNCHANGED <<bottles, state, required_bottles, pc, call, test, fvars>>

InitGraph ==
    /\ adjacency_list = Graph(GraphVertices)
    /\ bottles = Bottles(0)
    /\ state = [p \in Philosophers |-> TRANQUIL]
    /\ required_bottles = [p \in Philosophers |-> <<>>]
    /\ pc = [p \in Philosophers |-> "not_started"]
    /\ call = NoCall
    /\ calls = <<>>
    /\ test = 0
    /\ InitFineVars

NextGraph ==
    \E a, b \in 0 .. (GraphVertices - 1) : \E r \in 0 .. (GraphBottles - 1) :
        Graph_addEdge(a, b, r)

SpecGraph == InitGraph /\ [][NextGraph]_vars

----------------------------------------------------------------------------
(* The run step by step: every lock and unlock of Bottles::mtx, of          *)
(* StateLogger::mtx and of Philosopher::mtx, every iteration of the loops   *)
(* of acquireBottles and releaseBottles, every line written to std::cout.   *)
(* The graph is the one of alphaTests() Test 1, the pool the one of main(). *)

\* StateLogger::log up to the write: takes StateLogger::mtx, writes the line
StateLogger_log(p, line) ==
    /\ logger_mtx = NoThread
    /\ logger_mtx' = p
    /\ console' = [by |-> p, line |-> line]

\* where each call of StateLogger::log returns to
AfterLog ==
    [think_log1 |-> "think_sleep", think_log2 |-> "becomeThirsty",
     becomeThirsty_log |-> "becomeThirsty_end", requestBottles_log |-> "drink",
     drink_log1 |-> "drink_sleep", drink_log2 |-> "releaseBottles",
     releaseBottles_log |-> "think"]

\* the end of StateLogger::log: the lock guard lets go of StateLogger::mtx
StateLogger_log_end(p) ==
    /\ pc[p] \in DOMAIN AfterLog
    /\ logger_mtx = p
    /\ logger_mtx' = NoThread
    /\ pc' = [pc EXCEPT ![p] = AfterLog[pc[p]]]
    /\ UNCHANGED <<adjacency_list, bottles, state, required_bottles, call, calls, test,
                   bottles_mtx, philosopher_mtx, loop_i, console, snapshot, emitted>>

\* think(): state = TRANQUIL and the first log line
think_begin(p) ==
    /\ pc[p] = "think"
    /\ state' = [state EXCEPT ![p] = TRANQUIL]
    /\ StateLogger_log(p, "Started thinking")
    /\ pc' = [pc EXCEPT ![p] = "think_log1"]
    /\ UNCHANGED <<adjacency_list, bottles, required_bottles, call, calls, test,
                   bottles_mtx, philosopher_mtx, loop_i, snapshot, emitted>>

\* think(): the delay is over, the second log line
think_end(p) ==
    /\ pc[p] = "think_sleep"
    /\ StateLogger_log(p, "Finished thinking")
    /\ pc' = [pc EXCEPT ![p] = "think_log2"]
    /\ UNCHANGED <<adjacency_list, bottles, state, required_bottles, call, calls, test,
                   bottles_mtx, philosopher_mtx, loop_i, snapshot, emitted>>

\* becomeThirsty(): takes Philosopher::mtx, state = THIRSTY, picks the subset
becomeThirsty_begin(p) ==
    /\ pc[p] = "becomeThirsty"
    /\ ~philosopher_mtx[p]
    /\ philosopher_mtx' = [philosopher_mtx EXCEPT ![p] = TRUE]
    /\ state' = [state EXCEPT ![p] = THIRSTY]
    /\ LET adjacent_bottles == getAdjacentBottles(adjacency_list, p)
       IN  \E limit \in 1 .. MaxLimit : \E indices \in Shuffles(Len(adjacent_bottles)) :
             required_bottles' =
                [required_bottles EXCEPT ![p] = Selected(adjacent_bottles, indices, limit)]
    /\ pc' = [pc EXCEPT ![p] = "becomeThirsty_needs"]
    /\ UNCHANGED <<adjacency_list, bottles, call, calls, test,
                   bottles_mtx, logger_mtx, loop_i, console, snapshot, emitted>>

\* becomeThirsty(): the log line, written while Philosopher::mtx is held
becomeThirsty_log(p) ==
    /\ pc[p] = "becomeThirsty_needs"
    /\ StateLogger_log(p, "Needs bottles")
    /\ pc' = [pc EXCEPT ![p] = "becomeThirsty_log"]
    /\ UNCHANGED <<adjacency_list, bottles, state, required_bottles, call, calls, test,
                   bottles_mtx, philosopher_mtx, loop_i, snapshot, emitted>>

\* becomeThirsty() returns: the lock guard lets go of Philosopher::mtx
becomeThirsty_end(p) ==
    /\ pc[p] = "becomeThirsty_end"
    /\ philosopher_mtx' = [philosopher_mtx EXCEPT ![p] = FALSE]
    /\ pc' = [pc EXCEPT ![p] = "requestBottles"]
    /\ UNCHANGED <<adjacency_list, bottles, state, required_bottles, call, calls, test,
                   bottles_mtx, logger_mtx, loop_i, console, snapshot, emitted>>

\* acquireBottles: std::unique_lock lock(mtx)
acquireBottles_lock(p) ==
    /\ pc[p] = "requestBottles"
    /\ bottles_mtx = NoThread
    /\ bottles_mtx' = p
    /\ loop_i' = [loop_i EXCEPT ![p] = 1]
    /\ emitted' = [emitted EXCEPT ![p] = 0]
    /\ pc' = [pc EXCEPT ![p] = "acquire_check"]
    /\ UNCHANGED <<adjacency_list, bottles, state, required_bottles, call, calls, test,
                   logger_mtx, philosopher_mtx, console, snapshot>>

\* acquireBottles with one loop: takes each bottle as soon as it is seen free
acquireBottles_check_take(p) ==
    /\ pc[p] = "acquire_check"
    /\ LET req == required_bottles[p]
       IN  IF loop_i[p] > Len(req)
           THEN /\ pc' = [pc EXCEPT ![p] = "acquire_log"]
                /\ UNCHANGED <<bottles, loop_i>>
           ELSE IF bottles[req[loop_i[p]]] # Free /\ bottles[req[loop_i[p]]] # p
           THEN /\ pc' = [pc EXCEPT ![p] = "acquire_false"]
                /\ UNCHANGED <<bottles, loop_i>>
           ELSE /\ pc' = pc
                /\ bottles' = [bottles EXCEPT ![req[loop_i[p]]] = p]
                /\ loop_i' = [loop_i EXCEPT ![p] = @ + 1]
    /\ UNCHANGED <<adjacency_list, state, required_bottles, call, calls, test,
                   bottles_mtx, logger_mtx, philosopher_mtx, console, snapshot, emitted>>

\* acquireBottles whose lock covers the first loop only
acquireBottles_check_unlock(p) ==
    /\ pc[p] = "acquire_check"
    /\ LET req == required_bottles[p]
       IN  IF loop_i[p] > Len(req)
           THEN /\ pc' = [pc EXCEPT ![p] = "acquire_commit"]
                /\ loop_i' = [loop_i EXCEPT ![p] = 1]
                /\ bottles_mtx' = NoThread
           ELSE IF bottles[req[loop_i[p]]] # Free /\ bottles[req[loop_i[p]]] # p
           THEN /\ pc' = [pc EXCEPT ![p] = "acquire_false"]
                /\ UNCHANGED <<loop_i, bottles_mtx>>
           ELSE /\ pc' = pc
                /\ loop_i' = [loop_i EXCEPT ![p] = @ + 1]
                /\ bottles_mtx' = bottles_mtx
    /\ UNCHANGED <<adjacency_list, bottles, state, required_bottles, call, calls, test,
                   logger_mtx, philosopher_mtx, console, snapshot, emitted>>

\* acquireBottles: one iteration of the first loop, or its end
acquireBottles_check(p) ==
    /\ pc[p] = "acquire_check"
    /\ LET req == required_bottles[p]
       IN  IF loop_i[p] > Len(req)
           THEN /\ pc' = [pc EXCEPT ![p] = "acquire_commit"]
                /\ loop_i' = [loop_i EXCEPT ![p] = 1]
           ELSE IF bottles[req[loop_i[p]]] # Free /\ bottles[req[loop_i[p]]] # p
           THEN /\ pc' = [pc EXCEPT ![p] = "acquire_false"]
                /\ loop_i' = loop_i
           ELSE /\ pc' = pc
                /\ loop_i' = [loop_i EXCEPT ![p] = @ + 1]
    /\ UNCHANGED <<adjacency_list, bottles, state, required_bottles, call, calls, test,
                   bottles_mtx, logger_mtx, philosopher_mtx, console, snapshot, emitted>>

\* acquireBottles: one iteration of the second loop, or its end
acquireBottles_commit(p) ==
    /\ pc[p] = "acquire_commit"
    /\ LET req == required_bottles[p]
       IN  IF loop_i[p] > Len(req)
           THEN /\ pc' = [pc EXCEPT ![p] = "acquire_log"]
                /\ UNCHANGED <<bottles, loop_i>>
           ELSE /\ bottles' = [bottles EXCEPT ![req[loop_i[p]]] = p]
                /\ loop_i' = [loop_i EXCEPT ![p] = @ + 1]
                /\ pc' = pc
    /\ UNCHANGED <<adjacency_list, state, required_bottles, call, calls, test,
                   bottles_mtx, logger_mtx, philosopher_mtx, console, snapshot, emitted>>

\* logBottleState called by acquireBottles only: releaseBottles writes nothing
logBottleState_acquireOnly(p) ==
    /\ pc[p] \in {"acquire_log", "release_log"}
    /\ IF pc[p] = "acquire_log"
       THEN /\ console' = [by |-> p, line |-> "Bottles"]
            /\ snapshot' = bottles
            /\ emitted' = [emitted EXCEPT ![p] = @ + 1]
       ELSE UNCHANGED <<console, snapshot, emitted>>
    /\ pc' = [pc EXCEPT ![p] = IF pc[p] = "acquire_log" THEN "acquire_true"
                                                        ELSE "release_done"]
    /\ UNCHANGED <<adjacency_list, bottles, state, required_bottles, call, calls, test,
                   bottles_mtx, logger_mtx, philosopher_mtx, loop_i>>

\* logBottleState, called at the end of acquireBottles and of releaseBottles:
\* writes the ownership map to std::cout and flushes it
logBottleState(p) ==
    /\ pc[p] \in {"acquire_log", "release_log"}
    /\ console' = [by |-> p, line |-> "Bottles"]
    /\ snapshot' = bottles
    /\ emitted' = [emitted EXCEPT ![p] = @ + 1]
    /\ pc' = [pc EXCEPT ![p] = IF pc[p] = "acquire_log" THEN "acquire_true"
                                                        ELSE "release_done"]
    /\ UNCHANGED <<adjacency_list, bottles, state, required_bottles, call, calls, test,
                   bottles_mtx, logger_mtx, philosopher_mtx, loop_i>>

\* acquireBottles that unlocks by hand before return true only
acquireBottles_return_trueOnly(p) ==
    /\ pc[p] \in {"acquire_false", "acquire_true"}
    /\ bottles_mtx' = IF pc[p] = "acquire_true" THEN NoThread ELSE bottles_mtx
    /\ pc' = [pc EXCEPT ![p] = IF pc[p] = "acquire_true" THEN "acquired" ELSE "sleep_for"]
    /\ UNCHANGED <<adjacency_list, bottles, state, required_bottles, call, calls, test,
                   logger_mtx, philosopher_mtx, loop_i, console, snapshot, emitted>>

\* acquireBottles returns false or true: the lock lets go of Bottles::mtx
acquireBottles_return(p) ==
    /\ pc[p] \in {"acquire_false", "acquire_true"}
    /\ bottles_mtx' = NoThread
    /\ pc' = [pc EXCEPT ![p] = IF pc[p] = "acquire_true" THEN "acquired" ELSE "sleep_for"]
    /\ UNCHANGED <<adjacency_list, bottles, state, required_bottles, call, calls, test,
                   logger_mtx, philosopher_mtx, loop_i, console, snapshot, emitted>>

\* requestBottles() after acquireBottles returned true
requestBottles_acquired(p) ==
    /\ pc[p] = "acquired"
    /\ state' = [state EXCEPT ![p] = DRINKING]
    /\ StateLogger_log(p, "Acquired bottles")
    /\ pc' = [pc EXCEPT ![p] = "requestBottles_log"]
    /\ UNCHANGED <<adjacency_list, bottles, required_bottles, call, calls, test,
                   bottles_mtx, philosopher_mtx, loop_i, snapshot, emitted>>

\* run(): the delay between two calls of requestBottles is over
sleep_for_end(p) ==
    /\ pc[p] = "sleep_for"
    /\ pc' = [pc EXCEPT ![p] = "requestBottles"]
    /\ UNCHANGED <<adjacency_list, bottles, state, required_bottles, call, calls, test, fvars>>

\* drink(): the first log line
drink_begin(p) ==
    /\ pc[p] = "drink"
    /\ StateLogger_log(p, "Started drinking")
    /\ pc' = [pc EXCEPT ![p] = "drink_log1"]
    /\ UNCHANGED <<adjacency_list, bottles, state, required_bottles, call, calls, test,
                   bottles_mtx, philosopher_mtx, loop_i, snapshot, emitted>>

\* drink(): the delay is over, the second log line
drink_end(p) ==
    /\ pc[p] = "drink_sleep"
    /\ StateLogger_log(p, "Finished drinking")
    /\ pc' = [pc EXCEPT ![p] = "drink_log2"]
    /\ UNCHANGED <<adjacency_list, bottles, state, required_bottles, call, calls, test,
                   bottles_mtx, philosopher_mtx, loop_i, snapshot, emitted>>

\* releaseBottles() that sets TRANQUIL before it calls the pool
releaseBottles_lock_tranquilFirst(p) ==
    /\ pc[p] = "releaseBottles"
    /\ bottles_mtx = NoThread
    /\ bottles_mtx' = p
    /\ state' = [state EXCEPT ![p] = TRANQUIL]
    /\ loop_i' = [loop_i EXCEPT ![p] = 0]
    /\ emitted' = [emitted EXCEPT ![p] = 0]
    /\ pc' = [pc EXCEPT ![p] = "release_loop"]
    /\ UNCHANGED <<adjacency_list, bottles, required_bottles, call, calls, test,
                   logger_mtx, philosopher_mtx, console, snapshot>>

\* Bottles::releaseBottles: std::unique_lock lock(mtx)
releaseBottles_lock(p) ==
    /\ pc[p] = "releaseBottles"
    /\ bottles_mtx = NoThread
    /\ bottles_mtx' = p
    /\ loop_i' = [loop_i EXCEPT ![p] = 0]
    /\ emitted' = [emitted EXCEPT ![p] = 0]
    /\ pc' = [pc EXCEPT ![p] = "release_loop"]
    /\ UNCHANGED <<adjacency_list, bottles, state, required_bottles, call, calls, test,
                   logger_mtx, philosopher_mtx, console, snapshot>>

\* Bottles::releaseBottles: one iteration of the loop over the pool, or its end
releaseBottles_loop(p) ==
    /\ pc[p] = "release_loop"
    /\ IF loop_i[p] \notin DOMAIN bottles
       THEN /\ pc' = [pc EXCEPT ![p] = "release_log"]
            /\ UNCHANGED <<bottles, loop_i>>
       ELSE /\ bottles' = IF bottles[loop_i[p]] = p
                          THEN [bottles EXCEPT ![loop_i[p]] = Free]
                          ELSE bottles
            /\ loop_i' = [loop_i EXCEPT ![p] = @ + 1]
            /\ pc' = pc
    /\ UNCHANGED <<adjacency_list, state, required_bottles, call, calls, test,
                   bottles_mtx, logger_mtx, philosopher_mtx, console, snapshot, emitted>>

\* Bottles::releaseBottles returns: the lock lets go of Bottles::mtx
releaseBottles_return(p) ==
    /\ pc[p] = "release_done"
    /\ bottles_mtx' = NoThread
    /\ pc' = [pc EXCEPT ![p] = "released"]
    /\ UNCHANGED <<adjacency_list, bottles, state, required_bottles, call, calls, test,
                   logger_mtx, philosopher_mtx, loop_i, console, snapshot, emitted>>

\* Philosopher::releaseBottles() after the pool call: state = TRANQUIL, log line
releaseBottles_released(p) ==
    /\ pc[p] = "released"
    /\ state' = [state EXCEPT ![p] = TRANQUIL]
    /\ StateLogger_log(p, "Released bottles")
    /\ pc' = [pc EXCEPT ![p] = "releaseBottles_log"]
    /\ UNCHANGED <<adjacency_list, bottles, required_bottles, call, calls, test,
                   bottles_mtx, philosopher_mtx, loop_i, snapshot, emitted>>

\* one step of the thread of philosopher p
step(p) ==
    \/ think_begin(p) \/ think_end(p) \/ StateLogger_log_end(p)
    \/ becomeThirsty_begin(p) \/ becomeThirsty_log(p) \/ becomeThirsty_end(p)
    \/ acquireBottles_lock(p) \/ acquireBottles_check(p) \/ acquireBottles_commit(p)
    \/ logBottleState(p) \/ acquireBottles_return(p) \/ requestBottles_acquired(p)
    \/ sleep_for_end(p) \/ drink_begin(p) \/ drink_end(p)
    \/ releaseBottles_lock(p) \/ releaseBottles_loop(p) \/ releaseBottles_return(p)
    \/ releaseBottles_released(p)

InitFine ==
    /\ adjacency_list = AddEdges(Graph(number_of_philosophers), Test1Edges)
    /\ bottles = Bottles(number_of_bottles)
    /\ state = [p \in Philosophers |-> TRANQUIL]
    /\ required_bottles = [p \in Philosophers |-> <<>>]
    /\ pc = [p \in Philosophers |-> "not_started"]
    /\ call = NoCall
    /\ calls = Test1Edges
    /\ test = 0
    /\ InitFineVars

NextFine == \E p \in Philosophers : startThread(p) \/ step(p)

SpecFine == InitFine /\ [][NextFine]_vars

----------------------------------------------------------------------------
(* Properties *)

Owned(bs, id) == {b \in DOMAIN bs : bs[b] = id}
Conflict(bs, id, req) == \E b \in Range(req) : bs[b] # Free /\ bs[b] # id
Holding(p) == pc[p] \in {"drink", "releaseBottles"}

\* C1: mutual exclusion. Every bottle has one owner value, free or a
\* philosopher; a philosopher between a successful acquireBottles and its
\* next releaseBottles owns every bottle it required; and no two distinct
\* such philosophers have a required bottle in common.
C1_MutualExclusion ==
    /\ \A b \in DOMAIN bottles : bottles[b] \in {Free} \cup Philosophers
    /\ \A p \in Philosophers :
          Holding(p) => \A b \in Range(required_bottles[p]) : bottles[b] = p
    /\ \A p, q \in Philosophers :
          (p # q /\ Holding(p) /\ Holding(q)) =>
              Range(required_bottles[p]) \cap Range(required_bottles[q]) = {}

\* a philosopher holds while another one, refused, waits for one of its bottles
C1_Witness ==
    \E p, q \in Philosophers :
        /\ p # q /\ Holding(p) /\ pc[q] = "sleep_for"
        /\ Range(required_bottles[p]) \cap Range(required_bottles[q]) # {}

\* C2: all-or-nothing on failure. An acquireBottles call whose request names
\* a bottle owned by another philosopher returns false and leaves the whole
\* ownership vector as it was.
C2_AllOrNothing ==
    (call.op = "acquire" /\ Conflict(call.before, call.id, call.req)) =>
        (~call.ret /\ bottles = call.before)

\* a refused call whose first bottle was free and whose second was taken
C2_Witness ==
    /\ call.op = "acquire" /\ Len(call.req) = 2 /\ ~call.ret
    /\ call.before[call.req[1]] = Free
    /\ call.before[call.req[2]] \notin {Free, call.id}

\* C3: acquireBottles returns true exactly when every requested bottle is
\* free or owned by the caller; on true every requested bottle is then owned
\* by the caller and every other bottle keeps its owner.
C3_AcquireResult ==
    call.op = "acquire" =>
        /\ call.ret <=> (\A b \in Range(call.req) : call.before[b] \in {Free, call.id})
        /\ call.ret =>
              \A b \in DOMAIN bottles :
                  bottles[b] = IF b \in Range(call.req) THEN call.id ELSE call.before[b]

\* a granted call taking a free bottle and one already owned, next to a
\* bottle owned by another philosopher
C3_Witness ==
    /\ call.op = "acquire" /\ call.ret /\ Len(call.req) = 2
    /\ call.before[call.req[1]] = Free
    /\ call.before[call.req[2]] = call.id
    /\ \E b \in DOMAIN bottles : b \notin Range(call.req) /\ bottles[b] \notin {Free, call.id}

\* C4: idempotent re-acquire. A call by a philosopher that already owns every
\* requested bottle returns true and changes nothing; and a call that repeats
\* the granted call right before it returns true and changes nothing.
C4_IdempotentReacquire ==
    /\ [](call.op = "acquire" /\ (\A b \in Range(call.req) : call.before[b] = call.id)
             => call.ret /\ bottles = call.before)
    /\ [][(call.op = "acquire" /\ call.ret /\ call'.op = "acquire"
             /\ call'.id = call.id /\ call'.req = call.req)
             => (call'.ret /\ bottles' = bottles)]_vars

\* a granted call for two bottles the caller owned already
C4_Witness ==
    /\ call.op = "acquire" /\ call.ret /\ Cardinality(Range(call.req)) = 2
    /\ \A b \in Range(call.req) : call.before[b] = call.id

\* C5: release completeness. After releaseBottles(p) no bottle is owned by p.
C5_ReleaseCompleteness ==
    call.op = "release" => Owned(bottles, call.id) = {}

\* a release by a philosopher that owned every bottle of the pool
C5_Witness ==
    call.op = "release" /\ Owned(call.before, call.id) = DOMAIN bottles

\* C6: release frame. releaseBottles can always be called, and every bottle
\* not owned by the caller keeps its owner; when the caller owns nothing the
\* vector is unchanged.
C6_ReleaseFrame ==
    /\ \A id \in Callers : ENABLED Pool_releaseBottles(id)
    /\ call.op = "release" =>
          /\ \A b \in DOMAIN bottles : call.before[b] # call.id => bottles[b] = call.before[b]
          /\ Owned(call.before, call.id) = {} => bottles = call.before

\* a release that freed a bottle while another philosopher owned one
C6_Witness ==
    /\ call.op = "release" /\ Owned(call.before, call.id) # {}
    /\ \E b \in DOMAIN bottles : bottles[b] \notin {Free, call.id}

\* C7: empty request. acquireBottles with an empty request returns true and
\* changes nothing, whoever owns the bottles.
C7_EmptyRequest ==
    (call.op = "acquire" /\ call.req = <<>>) => (call.ret /\ bottles = call.before)

\* an empty request made while every bottle is owned by other philosophers
C7_Witness ==
    /\ call.op = "acquire" /\ call.req = <<>>
    /\ \A b \in DOMAIN bottles : call.before[b] \notin {Free, call.id}

\* C8: from an all-free pool, for distinct A and B and requests that share
\* a bottle, acquire(A, SA), acquire(B, SB), release(A), acquire(B, SB)
\* return true, false, -, true; the vector after the second call is the one
\* after the first, it is all free after the release, and at the end
\* exactly the bottles of SB are owned by B.
C8_Test2Sequence ==
    (test = 4 /\ call.A # call.B /\ Range(call.SA) \cap Range(call.SB) # {}) =>
        /\ call.ret1 /\ ~call.ret2 /\ call.ret4
        /\ call.after2 = call.after1
        /\ call.after3 = Bottles(PoolSize)
        /\ bottles = [b \in DOMAIN bottles |->
                         IF b \in Range(call.SB) THEN call.B ELSE Free]

\* the sequence done with two-bottle requests that overlap in one bottle
C8_Witness ==
    /\ test = 4 /\ call.A # call.B
    /\ Cardinality(Range(call.SA)) = 2 /\ Cardinality(Range(call.SB)) = 2
    /\ Cardinality(Range(call.SA) \cap Range(call.SB)) = 1

AdjacentSet(p) == Range(getAdjacentBottles(adjacency_list, p))
SamePair(c, d) == {c[1], c[2]} = {d[1], d[2]}

\* every bottle listed for a vertex comes from a call incident to that vertex
OnlyIncident ==
    \A p \in DOMAIN adjacency_list : \A r \in AdjacentSet(p) :
        \E i \in DOMAIN calls : calls[i][3] = r /\ p \in {calls[i][1], calls[i][2]}

\* C9 as stated: the bottle of every addEdge call made, calls that name an
\* already connected pair included, is adjacent to both of its vertices, and
\* no vertex lists a bottle of an edge not incident to it.
C9_AsStated ==
    /\ \A i \in DOMAIN calls :
          calls[i][3] \in AdjacentSet(calls[i][1]) \cap AdjacentSet(calls[i][2])
    /\ OnlyIncident

\* C9, amended: the bottle of every addEdge call that no later call names the
\* same pair of vertices as is adjacent to both of its vertices, and no vertex
\* lists a bottle of an edge not incident to it.
C9_TopologySymmetry ==
    /\ \A i \in DOMAIN calls :
          (\A j \in DOMAIN calls : j > i => ~SamePair(calls[i], calls[j])) =>
              calls[i][3] \in AdjacentSet(calls[i][1]) \cap AdjacentSet(calls[i][2])
    /\ OnlyIncident

\* a pair connected twice with different bottles
C9_Witness ==
    \E i, j \in DOMAIN calls :
          /\ i < j /\ SamePair(calls[i], calls[j]) /\ calls[i][3] # calls[j][3]
          /\ calls[i][1] # calls[i][2]
          /\ calls[j][3] \in AdjacentSet(calls[j][1]) \cap AdjacentSet(calls[j][2])

\* C10: every philosopher starts TRANQUIL; its state changes only from
\* TRANQUIL to THIRSTY in becomeThirsty, from THIRSTY to DRINKING in a
\* requestBottles whose acquireBottles was granted, and from DRINKING to
\* TRANQUIL in releaseBottles; and a started philosopher always has a step.
C10_StateCycle ==
    /\ \A p \in Philosophers : state[p] = TRANQUIL
    /\ [][\A p \in Philosophers : state'[p] # state[p] =>
            \/ /\ state[p] = TRANQUIL /\ state'[p] = THIRSTY
               /\ pc[p] = "becomeThirsty"
            \/ /\ state[p] = THIRSTY /\ state'[p] = DRINKING
               /\ pc[p] = "requestBottles"
               /\ ~Conflict(bottles, p, required_bottles[p])
               /\ \A b \in Range(required_bottles[p]) : bottles'[b] = p
            \/ /\ state[p] = DRINKING /\ state'[p] = TRANQUIL
               /\ pc[p] = "releaseBottles"]_vars
    /\ [](\A p \in Philosophers : pc[p] # "not_started" => ENABLED run(p))

\* a philosopher back at the top of the loop after a whole cycle, and
\* another one THIRSTY after a refused attempt
C10_Witness ==
    \E p, q \in Philosophers :
        /\ pc[p] = "think" /\ state[p] = TRANQUIL /\ required_bottles[p] # <<>>
        /\ pc[q] = "sleep_for" /\ state[q] = THIRSTY

\* C11: required_bottles of a philosopher changes only in becomeThirsty; a
\* refused requestBottles leaves the philosopher THIRSTY with the same
\* required_bottles, and the backoff sleep is followed by requestBottles with
\* that same vector.
C11_RetrySameSubset ==
    [][\A p \in Philosophers :
        /\ required_bottles'[p] # required_bottles[p] => pc[p] = "becomeThirsty"
        /\ (pc[p] = "requestBottles" /\ pc'[p] = "sleep_for") =>
              (state'[p] = THIRSTY /\ required_bottles'[p] = required_bottles[p])
        /\ (pc[p] = "sleep_for" /\ pc'[p] # pc[p]) =>
              /\ pc'[p] = "requestBottles" /\ state'[p] = THIRSTY
              /\ required_bottles'[p] = required_bottles[p]]_vars

\* a philosopher waits after a refusal, one of its two required bottles free
\* and the other taken
C11_Witness ==
    \E p \in Philosophers :
        /\ pc[p] = "sleep_for" /\ state[p] = THIRSTY /\ Len(required_bottles[p]) = 2
        /\ \E b, c \in Range(required_bottles[p]) :
              bottles[b] = Free /\ bottles[c] \notin {Free, p}

\* a philosopher that has gone through becomeThirsty in the current cycle
Chosen(p) == pc[p] \in {"requestBottles", "sleep_for", "drink", "releaseBottles"}

\* C12: after becomeThirsty, required_bottles has min(k, number of adjacent
\* bottles) entries for k = 1 or k = 2, each entry is an adjacent bottle, the
\* entries come from pairwise different positions of the adjacency vector,
\* and the vector holds nothing else.
C12_SubsetSelection ==
    \A p \in Philosophers : Chosen(p) =>
        LET adj == getAdjacentBottles(adjacency_list, p)
            req == required_bottles[p]
        IN  /\ \E k \in {1, 2} :
                  Len(req) = IF k < Len(adj) THEN k ELSE Len(adj)
            /\ \A i \in DOMAIN req : req[i] \in Range(adj)
            /\ \E f \in [DOMAIN req -> DOMAIN adj] :
                  /\ \A i, j \in DOMAIN req : f[i] = f[j] => i = j
                  /\ \A i \in DOMAIN req : req[i] = adj[f[i]]

\* a philosopher with one adjacent bottle has chosen it (the size is capped)
\* and one with two adjacent bottles has chosen both
C12_Witness ==
    \E p, q \in Philosophers :
        /\ Chosen(p) /\ Len(getAdjacentBottles(adjacency_list, p)) = 1
        /\ Len(required_bottles[p]) = 1
        /\ Chosen(q) /\ Len(getAdjacentBottles(adjacency_list, q)) = 2
        /\ Len(required_bottles[q]) = 2

\* a philosopher with no adjacent bottle
Isolated(p) == getAdjacentBottles(adjacency_list, p) = <<>>

\* C13: a philosopher with no adjacent bottle has an empty required_bottles
\* after becomeThirsty, is never refused (it never reaches the backoff
\* sleep), owns nothing, and none of its steps changes the ownership vector.
C13_EmptyAdjacency ==
    /\ [](\A p \in Philosophers : Isolated(p) =>
             /\ Chosen(p) => required_bottles[p] = <<>>
             /\ pc[p] # "sleep_for"
             /\ Owned(bottles, p) = {})
    /\ [][\A p \in Philosophers :
             (Isolated(p) /\ pc'[p] # pc[p]) =>
                 /\ bottles' = bottles
                 /\ pc[p] = "requestBottles" =>
                       (pc'[p] = "drink" /\ state'[p] = DRINKING)]_vars

\* a philosopher with no adjacent bottle drinks while another one owns a bottle
C13_Witness ==
    \E p, q \in Philosophers :
        /\ Isolated(p) /\ pc[p] = "drink" /\ state[p] = DRINKING
        /\ q # p /\ Owned(bottles, q) # {}

\* an addEdge call that names a vertex or a bottle that does not exist
BadCall(c) ==
    \/ c[1] \notin DOMAIN adjacency_list
    \/ c[2] \notin DOMAIN adjacency_list
    \/ c[3] \notin DOMAIN bottles

\* C18 as stated: a list of addEdge calls with a philosopher id or a bottle
\* id out of range is rejected at setup, so no philosopher thread runs on
\* it, and no philosopher has an out-of-range bottle in the vector it passes
\* to acquireBottles.
C18_AsStated ==
    /\ (\E i \in DOMAIN calls : BadCall(calls[i])) =>
          \A p \in Philosophers : pc[p] = "not_started"
    /\ \A p \in Philosophers :
          pc[p] = "requestBottles" => Range(required_bottles[p]) \subseteq DOMAIN bottles

\* C17: starvation is possible under weak fairness. Every behaviour of the
\* schedule SpecStarve is a behaviour of the run in which every thread is
\* started and scheduled again and again (FairSpec), and in it philosopher 1
\* becomes THIRSTY and stays THIRSTY for ever while its neighbour keeps
\* drinking; so THIRSTY does not lead to DRINKING.
C17_Starvation ==
    /\ FairSpec
    /\ <>[](state[Victim] = THIRSTY)
    /\ []<>(state[Neighbour] = DRINKING)

\* philosopher 1 sleeps after a refusal while the bottle it was refused is free
C17_Witness ==
    /\ pc[Victim] = "sleep_for" /\ state[Victim] = THIRSTY
    /\ \A b \in Range(required_bottles[Victim]) : bottles[b] = Free
    /\ pc[Neighbour] = "think"

\* the delays of run(): think(), drink() and the wait between two requests
Sleeping == {"think_sleep", "drink_sleep", "sleep_for"}

\* thread p writes a line to std::cout in this step
Writes(p) == console' # console /\ console'.by = p

\* C14: a thread that holds the Bottles mutex writes nothing to the console
\* and does not sleep; every line is written after the mutex is released.
C14_AsStated ==
    [][\A p \in Threads :
         /\ Writes(p) => bottles_mtx # p /\ bottles_mtx' # p
         /\ pc'[p] \in Sleeping => bottles_mtx' # p]_vars

\* C15: a thread in its think delay, its drink delay or its wait between two
\* requests holds none of the three mutexes; the Bottles mutex is let go on
\* both return paths of acquireBottles and at the end of releaseBottles.
C15_WaitOutsideLocks ==
    \A p \in Philosophers :
        /\ pc[p] \in Sleeping =>
              bottles_mtx # p /\ logger_mtx # p /\ ~philosopher_mtx[p]
        /\ pc[p] \in {"sleep_for", "acquired", "released"} => bottles_mtx # p

\* one thread waits to ask again, its call returned false, while another
\* thread has taken the Bottles mutex
C15_Witness ==
    \E p, q \in Threads :
        /\ p # q
        /\ pc[p] = "sleep_for"
        /\ bottles_mtx = q

\* thread p can take its next step now
CanStep(p) == ENABLED step(p)

\* C16: a philosopher that waits to ask again owns no bottle, so no cycle of
\* philosophers each holding what another waits for can form; and in every
\* state some thread can step: each started thread either can step or waits
\* for a mutex whose holder can step.
C16_NoPartialHoldDeadlock ==
    /\ \A p \in Philosophers :
          pc[p] \in {"acquire_false", "sleep_for"} => Owned(bottles, p) = {}
    /\ \A p \in Threads :
          pc[p] # "not_started" =>
             \/ CanStep(p)
             \/ bottles_mtx \in Threads \ {p} /\ CanStep(bottles_mtx)
             \/ logger_mtx \in Threads \ {p} /\ CanStep(logger_mtx)
    /\ \E p \in Threads : ENABLED (startThread(p) \/ step(p))

\* a philosopher waits to ask again for a bottle that a drinking one holds
C16_Witness ==
    \E p, q \in Threads :
        /\ p # q
        /\ pc[p] = "sleep_for"
        /\ pc[q] = "drink_sleep"
        /\ Range(required_bottles[p]) \cap Owned(bottles, q) # {}
        /\ Len(required_bottles[p]) = 2

\* thread p is inside acquireBottles or releaseBottles
InPool(p) ==
    pc[p] \in {"acquire_check", "acquire_commit", "acquire_log", "acquire_false",
               "acquire_true", "release_loop", "release_log", "release_done"}

\* philosopher p owns none of its required bottles or all of them
NoneOrAll(p) ==
    LET own == Owned(bottles, p) \cap Range(required_bottles[p])
    IN  own = {} \/ own = Range(required_bottles[p])

\* C19: with the two loops of acquireBottles taken one bottle at a time, every
\* philosopher that does not hold the Bottles mutex owns none of its required
\* bottles or all of them, and the thread inside the pool holds the mutex, so
\* no other acquireBottles, releaseBottles or snapshot runs during a commit.
C19_NoPartialObservable ==
    \A p \in Philosophers :
        /\ bottles_mtx # p => NoneOrAll(p)
        /\ InPool(p) => bottles_mtx = p
        /\ InPool(p) => \A q \in Philosophers \ {p} : ~InPool(q)

\* a commit is half done while another thread is about to call acquireBottles
C19_Witness ==
    \E p, q \in Threads :
        /\ p # q
        /\ pc[p] = "acquire_commit"
        /\ ~NoneOrAll(p)
        /\ pc[q] = "requestBottles"
        /\ Range(required_bottles[p]) \cap Range(required_bottles[q]) # {}

\* C20: acquireBottles that returns true and releaseBottles write exactly one
\* snapshot each, under the lock of the call and equal to the ownership map
\* the call leaves; acquireBottles that returns false writes none. So whenever
\* the Bottles mutex is free the last snapshot is the pool, and the pool
\* changes only under the mutex: the snapshots follow the pool states in the
\* order the calls took the lock.
C20_SnapshotEmission ==
    /\ [](\A p \in Philosophers :
            /\ pc[p] \in {"acquire_true", "acquired", "release_done", "released"}
                  => emitted[p] = 1
            /\ pc[p] \in {"acquire_false", "sleep_for"} => emitted[p] = 0)
    /\ [](bottles_mtx = NoThread =>
            \/ snapshot = bottles
            \/ snapshot = <<>> /\ bottles = Bottles(number_of_bottles))
    /\ [][/\ \A p \in Philosophers :
               Writes(p) /\ console'.line = "Bottles" =>
                  /\ bottles_mtx = p /\ bottles_mtx' = p
                  /\ bottles' = bottles /\ snapshot' = bottles
          /\ snapshot' # snapshot => \E p \in Philosophers : Writes(p)
          /\ bottles' # bottles => bottles_mtx # NoThread /\ bottles_mtx' = bottles_mtx]_vars

\* one philosopher drinks after a call that wrote its snapshot, another waits
\* to ask again after a call that wrote none, and the last snapshot is the pool
C20_Witness ==
    \E p, q \in Threads :
        /\ pc[p] = "drink_sleep" /\ emitted[p] = 1 /\ Owned(bottles, p) # {}
        /\ pc[q] = "sleep_for" /\ emitted[q] = 0
        /\ bottles_mtx = NoThread
        /\ snapshot = bottles

BeforeAcquire(p) ==
    pc[p] \in {"becomeThirsty", "requestBottles", "sleep_for", "acquire_check",
               "acquire_false"}

\* C22: a TRANQUIL philosopher owns no bottle, a philosopher owns only
\* bottles of its current required_bottles, and it owns none when it calls
\* becomeThirsty or starts an acquireBottles attempt.
C22_StateOwnership ==
    \A p \in Philosophers :
        /\ state[p] = TRANQUIL => Owned(bottles, p) = {}
        /\ Owned(bottles, p) \subseteq Range(required_bottles[p])
        /\ BeforeAcquire(p) => Owned(bottles, p) = {}

\* one philosopher is DRINKING with its two required bottles while another,
\* TRANQUIL again after a turn, owns none of the bottles it had asked for
C22_Witness ==
    \E p, q \in Threads :
        /\ state[p] = DRINKING
        /\ Cardinality(Owned(bottles, p)) = 2
        /\ state[q] = TRANQUIL
        /\ required_bottles[q] # <<>>
        /\ Owned(bottles, q) = {}

\* the two philosophers at the ends of the edge of main() that carries bottle b
Ends(b) ==
    UNION {{MainEdges[e][1], MainEdges[e][2]} : e \in {k \in DOMAIN MainEdges : MainEdges[k][3] = b}}

\* C23: on main()'s graph every bottle is free or owned by one of the two
\* philosophers at the ends of its edge, every owner value is -1 or a
\* philosopher id in 0..4, and the bottles listed for a philosopher are those
\* of its own edges.
C23_OwnershipTopology ==
    /\ \A b \in DOMAIN bottles :
          /\ bottles[b] = Free \/ bottles[b] \in Ends(b)
          /\ bottles[b] \in {-1} \cup (0 .. 4)
    /\ \A p \in Philosophers :
          {adjacency_list[p][k] : k \in DOMAIN adjacency_list[p]}
             = {b \in DOMAIN bottles : p \in Ends(b)}

\* philosopher 0 owns the bottle of the chord 0-2 while philosopher 1 owns
\* the bottle of the edge 1-2
C23_Witness ==
    /\ bottles[5] = 0
    /\ bottles[1] = 1
    /\ state[0] = DRINKING /\ state[1] = DRINKING

\* C24: global progress. When no thread between becomeThirsty and the end of
\* its release is left out for ever, whenever some philosopher is THIRSTY, later some philosopher, the same or
\* another, has acquired its bottles and is DRINKING.
C24_GlobalProgress ==
    (\E p \in Philosophers : state[p] = THIRSTY)
        ~> (\E q \in Philosophers : state[q] = DRINKING /\ pc[q] = "drink")

\* a philosopher that was refused is still THIRSTY while the one that holds
\* the bottle it asked for is DRINKING
C24_Witness ==
    \E p, q \in Threads :
        /\ state[p] = THIRSTY /\ pc[p] = "sleep_for"
        /\ Conflict(bottles, p, required_bottles[p])
        /\ state[q] = DRINKING /\ pc[q] = "drink"

====
